---- MODULE Spec2Model ----
(***************************************************************************)
(* Model of src/vector.h: RawMemory<T> (a block of uninitialized slots)    *)
(* and Vector<T> (a RawMemory plus a count of live elements).              *)
(*                                                                         *)
(* A buffer is a sequence of slots; the slot at C++ offset k is element    *)
(* k+1 of the sequence.  A slot is Raw (no object lives there), MovedFrom  *)
(* (an object that has been the source of a move) or a value of Vals.      *)
(*                                                                         *)
(* The element type T is described by two traits fixed for a behaviour:    *)
(* NothrowMove (std::is_nothrow_move_constructible_v<T>) and Copyable      *)
(* (std::is_copy_constructible_v<T>).                                      *)
(*                                                                         *)
(* Exceptions are injected with a fuse: fuse = 0 means nothing throws,     *)
(* fuse = k means the k-th operation of the call that is able to throw     *)
(* (allocation, construction, copy, a move of a type whose moves may       *)
(* throw, an assignment) throws.                                           *)
(***************************************************************************)
EXTENDS Integers, Sequences, FiniteSets, TLC

VARIABLES data,         \* Vector::data_ : the slots of the owned block (Len = capacity_)
          size,         \* Vector::size_
          NothrowMove,  \* trait of T
          Copyable,     \* trait of T
          aborted,      \* the process died after undefined behaviour
          hist,         \* history of the appends performed since construction
          last          \* what the most recent call did

vars == <<data, size, NothrowMove, Copyable, aborted, hist, last>>

(* ------------------------------ bounds -------------------------------- *)
MaxCap == 4        \* largest capacity explored
NumVals == 2       \* number of distinct element values
MaxFuse == 5       \* latest throwing point injected
MaxSrc == 2        \* largest right-hand side of an assignment

(* ------------------------------ slots --------------------------------- *)
Raw == -1
MovedFrom == 0
Default == 1
Vals == 1..NumVals

RawBlock(n) == [i \in 1..n |-> Raw]

Capacity == Len(data)

\* the live elements, as operator[] reads them
Elems(d, s) == [i \in 1..s |-> d[i]]

\* the relocation policy of Reserve / EmplaceBack / CompletelyFilled
UseMove == NothrowMove \/ ~Copyable

(* --------------------------- exceptions ------------------------------- *)
\* does the next operation throw, given that it is able to (can)
Boom(f, can) == can /\ f = 1
\* the fuse after one operation that did not throw
Spend(f, can) == IF can /\ f > 0 THEN f - 1 ELSE f
\* does one of the next n operations throw
BoomIn(f, n, can) == can /\ f >= 1 /\ f <= n
\* how many of the next n operations complete
Done(f, n, can) == IF BoomIn(f, n, can) THEN f - 1 ELSE n
\* the fuse after n operations that did not throw
SpendN(f, n, can) == IF can /\ f > 0 THEN f - n ELSE f

(* ------------------------- std:: algorithms --------------------------- *)
\* the C++ offsets first .. first+n-1
Range(first, n) == first..(first + n - 1)

\* std::uninitialized_copy_n(src + so, n, dst + do): on a throw the copies
\* already made are destroyed again and dst is as before
UninitCopyN(src, so, n, dst, do, f) ==
    LET k == Done(f, n, TRUE)
    IN  IF BoomIn(f, n, TRUE)
        THEN [ok |-> FALSE, src |-> src, dst |-> dst,
              made |-> Range(do, k), fuse |-> 0]
        ELSE [ok |-> TRUE, src |-> src,
              dst |-> [i \in 1..Len(dst) |->
                          IF (i - 1) \in Range(do, n) THEN src[i - do + so] ELSE dst[i]],
              made |-> Range(do, n), fuse |-> SpendN(f, n, TRUE)]

\* std::uninitialized_move_n(src + so, n, dst + do): each source that was
\* moved is left moved-from, also when a later move throws
UninitMoveN(src, so, n, dst, do, f) ==
    LET k == Done(f, n, ~NothrowMove)
        left == [i \in 1..Len(src) |->
                    IF (i - 1) \in Range(so, k) THEN MovedFrom ELSE src[i]]
    IN  IF BoomIn(f, n, ~NothrowMove)
        THEN [ok |-> FALSE, src |-> left, dst |-> dst,
              made |-> Range(do, k), fuse |-> 0]
        ELSE [ok |-> TRUE, src |-> left,
              dst |-> [i \in 1..Len(dst) |->
                          IF (i - 1) \in Range(do, n) THEN src[i - do + so] ELSE dst[i]],
              made |-> Range(do, n), fuse |-> SpendN(f, n, ~NothrowMove)]

\* Relocate with the destination one slot too far
RelocateOffByOne(src, so, n, dst, do, f) ==
    IF UseMove THEN UninitMoveN(src, so, n, dst, do + 1, f)
               ELSE UninitCopyN(src, so, n, dst, do + 1, f)

\* the if constexpr (is_nothrow_move_constructible_v || !is_copy_constructible_v)
Relocate(src, so, n, dst, do, f) ==
    IF UseMove THEN UninitMoveN(src, so, n, dst, do, f)
               ELSE UninitCopyN(src, so, n, dst, do, f)

\* std::destroy_n(buf + first, n): the slots become raw
DestroyN(buf, first, n) ==
    [i \in 1..Len(buf) |-> IF (i - 1) \in Range(first, n) THEN Raw ELSE buf[i]]

\* the slots among first .. first+n-1 that hold no object when destroyed
BadDestroy(buf, first, n) ==
    {k \in Range(first, n) : k + 1 > Len(buf) \/ buf[k + 1] = Raw}

\* *(buf + to) = std::move(*(buf + from))
MoveAssignElem(buf, from, to) ==
    IF from = to THEN buf
    ELSE [buf EXCEPT ![to + 1] = buf[from + 1], ![from + 1] = MovedFrom]

\* std::move(buf + first, buf + lst, buf + d), stopped after m assignments
RECURSIVE StdMove(_, _, _, _, _)
StdMove(buf, first, lst, d, m) ==
    IF first = lst \/ m = 0 THEN buf
    ELSE StdMove(MoveAssignElem(buf, first, d), first + 1, lst, d + 1, m - 1)

\* MoveBackward done front to back, as std::move would
MoveBackwardAsMove(buf, first, lst, dlast, m) ==
    StdMove(buf, first, lst, dlast - (lst - first), m)

\* std::move_backward(buf + first, buf + lst, buf + dlast), stopped after m assignments
RECURSIVE MoveBackward(_, _, _, _, _)
MoveBackward(buf, first, lst, dlast, m) ==
    IF first = lst \/ m = 0 THEN buf
    ELSE MoveBackward(MoveAssignElem(buf, lst - 1, dlast - 1), first, lst - 1, dlast - 1, m - 1)

\* std::copy(src, src + n, dst), stopped after m assignments
StdCopy(src, n, dst, m) ==
    [i \in 1..Len(dst) |-> IF i <= m /\ i <= n THEN src[i] ELSE dst[i]]

(* ------------------------------ blocks -------------------------------- *)
\* Addresses are named relative to a call: Null is nullptr, Own the block
\* the container holds when the call starts, Fresh the block the call
\* allocates, Foreign the block of the other container of the call.
Null == 0
Own == 1
Fresh == 2
Foreign == 3

\* RawMemory::GetAddress of the container's block at the start of a call
Held(d) == IF Len(d) = 0 THEN Null ELSE Own

\* RawMemory::Allocate(n)
Allocate(n) == IF n # 0 THEN Fresh ELSE Null

\* RawMemory::Deallocate(buf): the blocks given back (deleting nullptr gives none)
Deallocate(b) == IF b = Null THEN <<>> ELSE <<b>>

(* ------------------------- results of a call -------------------------- *)
\* path: the branch taken; failed: the step that threw ("none" if none);
\* made / killed / bad: offsets of the slots of the NEW block that were
\* constructed, destroyed, and destroyed while holding no object;
\* oldKilled: offsets of the slots of the vector's own block destroyed;
\* buf: the address in data_ after the call; freed: the blocks released
Res(d, s, path, failed, f) ==
    [data |-> d, size |-> s, path |-> path, failed |-> failed,
     made |-> {}, killed |-> {}, bad |-> {}, oldKilled |-> {},
     ret |-> 0, fuse |-> f, buf |-> Held(d), freed |-> <<>>]

\* data_.Swap(new_data) with the block of n slots the call allocated; the
\* destructor of new_data then releases the block d that was held before
Adopted(r, d, n) == [r EXCEPT !.buf = Allocate(n), !.freed = Deallocate(Held(d))]

\* an exception leaves the scope of new_data: its destructor releases the
\* block of n slots the call allocated
Abandoned(r, n) == [r EXCEPT !.freed = Deallocate(Allocate(n))]

(* ------------------------------ Reserve ------------------------------- *)
\* ReserveOp that returns early only when the capacities are equal
ReserveOpExact(d, s, n, f) ==
    IF n = Len(d) THEN Res(d, s, "noop", "none", f)
    ELSE IF Boom(f, TRUE) THEN Res(d, s, "grow", "alloc", 0)
    ELSE LET r == Relocate(d, 0, s, RawBlock(n), 0, Spend(f, TRUE))
         IN  IF ~r.ok
             THEN Abandoned([Res(r.src, s, "grow", "relocate", 0)
                               EXCEPT !.made = r.made, !.killed = r.made], n)
             ELSE Adopted([Res(r.dst, s, "grow", "none", r.fuse)
                             EXCEPT !.made = r.made, !.oldKilled = Range(0, s)], d, n)

\* ReserveOp that returns early only when the request is below the capacity
ReserveOpStrict(d, s, n, f) ==
    IF n < Len(d) THEN Res(d, s, "noop", "none", f)
    ELSE IF Boom(f, TRUE) THEN Res(d, s, "grow", "alloc", 0)
    ELSE LET r == Relocate(d, 0, s, RawBlock(n), 0, Spend(f, TRUE))
         IN  IF ~r.ok
             THEN Abandoned([Res(r.src, s, "grow", "relocate", 0)
                               EXCEPT !.made = r.made, !.killed = r.made], n)
             ELSE Adopted([Res(r.dst, s, "grow", "none", r.fuse)
                             EXCEPT !.made = r.made, !.oldKilled = Range(0, s)], d, n)

\* ReserveOp that does not destroy the old elements after moving them
ReserveOpNoDestroyAfterMove(d, s, n, f) ==
    IF n <= Len(d) THEN Res(d, s, "noop", "none", f)
    ELSE IF Boom(f, TRUE) THEN Res(d, s, "grow", "alloc", 0)
    ELSE LET r == Relocate(d, 0, s, RawBlock(n), 0, Spend(f, TRUE))
         IN  IF ~r.ok
             THEN Abandoned([Res(r.src, s, "grow", "relocate", 0)
                               EXCEPT !.made = r.made, !.killed = r.made], n)
             ELSE Adopted([Res(r.dst, s, "grow", "none", r.fuse)
                             EXCEPT !.made = r.made,
                                    !.oldKilled = IF UseMove THEN {} ELSE Range(0, s)],
                          d, n)

ReserveOp(d, s, n, f) ==
    IF n <= Len(d) THEN Res(d, s, "noop", "none", f)
    ELSE IF Boom(f, TRUE) THEN Res(d, s, "grow", "alloc", 0)
    ELSE LET r == Relocate(d, 0, s, RawBlock(n), 0, Spend(f, TRUE))
         IN  IF ~r.ok
             THEN Abandoned([Res(r.src, s, "grow", "relocate", 0)
                               EXCEPT !.made = r.made, !.killed = r.made], n)
             ELSE Adopted([Res(r.dst, s, "grow", "none", r.fuse)
                             EXCEPT !.made = r.made, !.oldKilled = Range(0, s)], d, n)

(* ------------------------ construction of a T ------------------------- *)
\* the value the constructor of the new element reads: v, or, when the
\* argument is a reference to the element at offset ref of the container
\* (ref >= 0), what the block buf holds there at the time of construction
NoRef == -1
ArgValue(buf, v, ref) == IF ref >= 0 THEN buf[ref + 1] ELSE v

\* kind of constructor that builds the new element: "copy" (const T&),
\* "move" (T&&) or "args" (any other constructor); only a move of a type
\* with a noexcept move constructor is unable to throw
CtorThrows(kind) == kind # "move" \/ ~NothrowMove

\* new capacity chosen by EmplaceBack when there is no spare capacity
GrowCapBack(s) == IF s = 0 THEN 1 ELSE s * 2

\* GrowCapFilled that grows by one slot
GrowByOne(s) == s + 1

\* new capacity chosen by CompletelyFilled
GrowCapFilled(s) == IF s = 0 THEN 1 ELSE s * 2

(* ----------------------- EmplaceBack / PushBack ----------------------- *)
\* EmplaceBackOp that relocates the old elements before it constructs the new one
EmplaceBackRelocateFirst(d, s, v, ref, f, can) ==
    IF Len(d) > s
    THEN IF Boom(f, can) THEN Res(d, s, "fast", "construct", 0)
         ELSE [Res([d EXCEPT ![s + 1] = ArgValue(d, v, ref)], s + 1, "fast", "none",
                   Spend(f, can))
                 EXCEPT !.ret = s]
    ELSE IF Boom(f, TRUE) THEN Res(d, s, "grow", "alloc", 0)
    ELSE LET r == Relocate(d, 0, s, RawBlock(GrowCapBack(s)), 0, Spend(f, TRUE))
         IN  IF ~r.ok
             THEN Abandoned([Res(r.src, s, "grow", "relocate", 0)
                               EXCEPT !.made = r.made, !.killed = r.made],
                            GrowCapBack(s))
             ELSE IF Boom(r.fuse, can)
             THEN Abandoned([Res(r.src, s, "grow", "construct", 0)
                               EXCEPT !.made = r.made], GrowCapBack(s))
             ELSE Adopted([Res([r.dst EXCEPT ![s + 1] = ArgValue(r.src, v, ref)],
                               s + 1, "grow", "none", Spend(r.fuse, can))
                             EXCEPT !.made = r.made \cup {s},
                                    !.oldKilled = Range(0, s), !.ret = s],
                          d, GrowCapBack(s))

EmplaceBackOp(d, s, v, ref, f, can) ==
    IF Len(d) > s
    THEN IF Boom(f, can) THEN Res(d, s, "fast", "construct", 0)
         ELSE [Res([d EXCEPT ![s + 1] = ArgValue(d, v, ref)], s + 1, "fast", "none",
                   Spend(f, can))
                 EXCEPT !.ret = s]
    ELSE IF Boom(f, TRUE) THEN Res(d, s, "grow", "alloc", 0)
    ELSE LET f1 == Spend(f, TRUE)
             nb == RawBlock(GrowCapBack(s))
         IN  IF Boom(f1, can)
             THEN Abandoned(Res(d, s, "grow", "construct", 0), GrowCapBack(s))
             ELSE LET r == Relocate(d, 0, s, [nb EXCEPT ![s + 1] = ArgValue(d, v, ref)],
                                    0, Spend(f1, can))
                  IN  IF ~r.ok
                      THEN Abandoned([Res(r.src, s, "grow", "relocate", 0)
                                        EXCEPT !.made = r.made \cup {s},
                                               !.killed = r.made], GrowCapBack(s))
                      ELSE Adopted([Res(r.dst, s + 1, "grow", "none", r.fuse)
                                      EXCEPT !.made = r.made \cup {s},
                                             !.oldKilled = Range(0, s), !.ret = s],
                                   d, GrowCapBack(s))

(* ------------------------------ PopBack ------------------------------- *)
PopBackOp(d, s) ==
    [Res(DestroyN(d, s - 1, 1), s - 1, "pop", "none", 0) EXCEPT !.oldKilled = {s - 1}]

(* ------------------------------- Resize ------------------------------- *)
\* ValueConstructN that stops one slot short
ValueConstructShort(buf, first, n) ==
    [i \in 1..Len(buf) |-> IF (i - 1) \in Range(first, n - 1) THEN Default ELSE buf[i]]

\* std::uninitialized_value_construct_n(buf + first, n)
ValueConstructN(buf, first, n) ==
    [i \in 1..Len(buf) |-> IF (i - 1) \in Range(first, n) THEN Default ELSE buf[i]]

ResizeOp(d, s, n, f) ==
    LET r == ReserveOp(d, s, n, f)
    IN  IF r.failed # "none" THEN r
        ELSE IF s < n
        THEN IF BoomIn(r.fuse, n - s, TRUE)
             THEN [r EXCEPT !.path = "more", !.failed = "construct", !.fuse = 0]
             ELSE [r EXCEPT !.path = "more", !.size = n,
                            !.data = ValueConstructN(r.data, s, n - s),
                            !.fuse = SpendN(r.fuse, n - s, TRUE)]
        ELSE IF s > n
        THEN [r EXCEPT !.path = "less", !.size = n,
                       !.data = DestroyN(r.data, n, s - n),
                       !.oldKilled = Range(n, s - n)]
        ELSE [r EXCEPT !.path = "same"]

(* ------------------------------- Erase -------------------------------- *)
\* EraseOp that destroys the final slot without shifting the tail left
EraseOpNoShift(d, s, pos, f) ==
    IF pos = s THEN [Res(d, s, "end", "none", f) EXCEPT !.ret = s]
    ELSE [Res(DestroyN(d, s - 1, 1), s - 1, "shift", "none", f)
            EXCEPT !.ret = pos, !.oldKilled = {s - 1}]

EraseOp(d, s, pos, f) ==
    IF pos = s THEN [Res(d, s, "end", "none", f) EXCEPT !.ret = s]
    ELSE LET cnt == s - (pos + 1)
             m == Done(f, cnt, ~NothrowMove)
             d1 == StdMove(d, pos + 1, s, pos, m)
         IN  IF BoomIn(f, cnt, ~NothrowMove)
             THEN Res(d1, s, "shift", "assign", 0)
             ELSE [Res(DestroyN(d1, s - 1, 1), s - 1, "shift", "none",
                       SpendN(f, cnt, ~NothrowMove))
                     EXCEPT !.ret = pos, !.oldKilled = {s - 1}]

(* ---------------------------- BigCapacity ----------------------------- *)
\* BigCapacity that shifts the tail right before it constructs the new value
BigCapacityShiftFirst(d, s, pos, v, ref, f, can) ==
    IF pos = s THEN EmplaceBackOp(d, s, v, ref, f, can)
    ELSE LET d1 == [d EXCEPT ![s + 1] = d[s], ![s] = MovedFrom]
             d2 == MoveBackward(d1, pos, s - 1, s, (s - 1) - pos)
         IN  IF Boom(f, can) THEN Res(d2, s, "spare", "construct", 0)
             ELSE [Res([d2 EXCEPT ![pos + 1] = ArgValue(d, v, ref)],
                       s + 1, "spare", "none", Spend(f, can))
                     EXCEPT !.ret = pos]

BigCapacity(d, s, pos, v, ref, f, can) ==
    IF pos = s THEN EmplaceBackOp(d, s, v, ref, f, can)
    ELSE IF Boom(f, can) THEN Res(d, s, "spare", "construct", 0)
    ELSE LET f1 == Spend(f, can)
         IN  IF Boom(f1, ~NothrowMove) THEN Res(d, s, "spare", "tail", 0)
             ELSE LET d1 == [d EXCEPT ![s + 1] = d[s], ![s] = MovedFrom]
                      f2 == Spend(f1, ~NothrowMove)
                      cnt == (s - 1) - pos
                      d2 == MoveBackward(d1, pos, s - 1, s, Done(f2, cnt, ~NothrowMove))
                      f3 == SpendN(f2, cnt, ~NothrowMove)
                  IN  IF BoomIn(f2, cnt, ~NothrowMove) THEN Res(d2, s, "spare", "assign", 0)
                      ELSE IF Boom(f3, ~NothrowMove) THEN Res(d2, s, "spare", "assign", 0)
                      ELSE [Res([d2 EXCEPT ![pos + 1] = ArgValue(d, v, ref)],
                                s + 1, "spare", "none",
                                Spend(f3, ~NothrowMove))
                              EXCEPT !.ret = pos]

(* -------------------------- CompletelyFilled -------------------------- *)
CompletelyFilled(d, s, pos, v, ref, f, can) ==
    IF Boom(f, TRUE) THEN Res(d, s, "full", "alloc", 0)
    ELSE
    LET nb == RawBlock(GrowCapFilled(s))
        p == Relocate(d, 0, pos, nb, 0, Spend(f, TRUE))
    IN  IF ~p.ok
        THEN IF UseMove
             THEN Abandoned([Res(p.src, s, "full", "prefix", 0)
                               EXCEPT !.made = p.made, !.killed = p.made],
                            GrowCapFilled(s))
             ELSE \* catch (...) { std::destroy_n(new_data + offset, 1); throw; }
                  Abandoned([Res(p.src, s, "full", "prefix", 0)
                               EXCEPT !.made = p.made,
                                      !.killed = p.made \cup Range(pos, 1),
                                      !.bad = BadDestroy(p.dst, pos, 1)],
                            GrowCapFilled(s))
        ELSE IF Boom(p.fuse, can)
        THEN Abandoned([Res(p.src, s, "full", "construct", 0) EXCEPT !.made = p.made],
                       GrowCapFilled(s))
        ELSE
        LET nb2 == [p.dst EXCEPT ![pos + 1] = ArgValue(p.src, v, ref)]
            q == Relocate(p.src, pos, s - pos, nb2, pos + 1, Spend(p.fuse, can))
        IN  IF s > pos /\ ~q.ok
            THEN IF UseMove
                 THEN Abandoned([Res(q.src, s, "full", "suffix", 0)
                                   EXCEPT !.made = p.made \cup {pos} \cup q.made,
                                          !.killed = q.made], GrowCapFilled(s))
                 ELSE \* catch (...) { std::destroy_n(new_data.GetAddress(), offset + 1); throw; }
                      Abandoned([Res(q.src, s, "full", "suffix", 0)
                                   EXCEPT !.made = p.made \cup {pos} \cup q.made,
                                          !.killed = q.made \cup Range(0, pos + 1),
                                          !.bad = BadDestroy(nb2, 0, pos + 1)],
                                GrowCapFilled(s))
            ELSE Adopted([Res(IF s > pos THEN q.dst ELSE nb2, s + 1, "full", "none",
                              IF s > pos THEN q.fuse ELSE Spend(p.fuse, can))
                            EXCEPT !.made = Range(0, s + 1),
                                   !.oldKilled = Range(0, s), !.ret = pos],
                         d, GrowCapFilled(s))

(* ------------------------------ Emplace ------------------------------- *)
EmplaceOp(d, s, pos, v, ref, f, can) ==
    LET r == IF Len(d) > s THEN BigCapacity(d, s, pos, v, ref, f, can)
                           ELSE CompletelyFilled(d, s, pos, v, ref, f, can)
    IN  IF r.failed = "none" THEN [r EXCEPT !.ret = pos] ELSE r

(* ------------------------- whole containers --------------------------- *)
Vec(d, s) == [data |-> d, size |-> s]

\* Vector() = default
EmptyVec == Vec(<<>>, 0)

\* SwapOp that exchanges the blocks and leaves the sizes where they were
SwapBlocksOnly(a, b) == [a |-> Vec(b.data, a.size), b |-> Vec(a.data, b.size)]

\* Vector::Swap: exchanges data_ and size_ of the two containers
SwapOp(a, b) == [a |-> b, b |-> a]

(* ----------------------------- RawMemory ------------------------------ *)
RawMem(b, c) == [buffer |-> b, capacity |-> c]

\* RawMemory() = default
EmptyRaw == RawMem(Null, 0)

\* RawSwap that exchanges the buffers and leaves the capacities where they were
RawSwapBufferOnly(a, b) ==
    [a |-> RawMem(b.buffer, a.capacity), b |-> RawMem(a.buffer, b.capacity)]

\* RawMemory::Swap
RawSwap(a, b) == [a |-> b, b |-> a]

\* RawMemory(RawMemory&& other): the new object starts as RawMemory()
RawMoveConstructOp(other) == RawSwap(EmptyRaw, other)

\* RawMemory::operator=(RawMemory&& rhs)
RawMoveAssignOp(this, rhs) == RawSwap(this, rhs)

(* -------------------------- copy construction ------------------------- *)
\* CopyConstructOp that sizes the new block by the capacity of the source
CopyConstructByCapacity(d, s, f) ==
    IF Boom(f, Len(d) # 0) THEN [res |-> Res(d, s, "copy", "alloc", 0), built |-> EmptyVec]
    ELSE LET c == UninitCopyN(d, 0, s, RawBlock(Len(d)), 0, Spend(f, Len(d) # 0))
         IN  IF ~c.ok
             THEN [res |-> Abandoned([Res(d, s, "copy", "construct", 0)
                                        EXCEPT !.made = c.made, !.killed = c.made], Len(d)),
                   built |-> EmptyVec]
             ELSE [res |-> [Res(d, s, "copy", "none", c.fuse) EXCEPT !.made = c.made],
                   built |-> Vec(c.dst, s)]

\* Vector(const Vector& other), with other = (d, s): res is what the call
\* did to other, built the new container
CopyConstructOp(d, s, f) ==
    IF Boom(f, s # 0) THEN [res |-> Res(d, s, "copy", "alloc", 0), built |-> EmptyVec]
    ELSE LET c == UninitCopyN(d, 0, s, RawBlock(s), 0, Spend(f, s # 0))
         IN  IF ~c.ok
             THEN [res |-> Abandoned([Res(d, s, "copy", "construct", 0)
                                        EXCEPT !.made = c.made, !.killed = c.made], s),
                   built |-> EmptyVec]
             ELSE [res |-> [Res(d, s, "copy", "none", c.fuse) EXCEPT !.made = c.made],
                   built |-> Vec(c.dst, s)]

(* -------------------------- copy assignment --------------------------- *)
\* CopyAssignOp that reallocates whenever the source is larger than the size
CopyAssignBySize(d, s, rhs, f) ==
    LET n == rhs.size
    IN  IF n > s
        THEN \* Vector<T> tmp(rhs); Swap(tmp);
             IF Boom(f, TRUE) THEN Res(d, s, "realloc", "alloc", 0)
             ELSE LET c == UninitCopyN(rhs.data, 0, n, RawBlock(n), 0, Spend(f, TRUE))
                  IN  IF ~c.ok
                      THEN Abandoned([Res(d, s, "realloc", "construct", 0)
                                        EXCEPT !.made = c.made, !.killed = c.made], n)
                      ELSE Adopted([Res(SwapOp(Vec(d, s), Vec(c.dst, n)).a.data, n,
                                        "realloc", "none", c.fuse)
                                      EXCEPT !.made = c.made,
                                             !.oldKilled = Range(0, s)], d, n)
        ELSE IF s < n
        THEN LET c == UninitCopyN(rhs.data, s, n - s, d, s, f)
             IN  IF ~c.ok THEN Res(d, s, "reuse_more", "construct", 0)
                 ELSE IF BoomIn(c.fuse, s, TRUE)
                 THEN Res(StdCopy(rhs.data, s, c.dst, Done(c.fuse, s, TRUE)), s,
                          "reuse_more", "assign", 0)
                 ELSE Res(StdCopy(rhs.data, s, c.dst, s), n,
                          "reuse_more", "none", SpendN(c.fuse, s, TRUE))
        ELSE IF s > n
        THEN LET d1 == DestroyN(d, n, s - n)
             IN  IF BoomIn(f, n, TRUE)
                 THEN [Res(StdCopy(rhs.data, n, d1, Done(f, n, TRUE)), s,
                           "reuse_less", "assign", 0)
                         EXCEPT !.oldKilled = Range(n, s - n)]
                 ELSE [Res(StdCopy(rhs.data, n, d1, n), n,
                           "reuse_less", "none", SpendN(f, n, TRUE))
                         EXCEPT !.oldKilled = Range(n, s - n)]
        ELSE Res(d, n, "reuse_same", "none", f)

\* rhs is read through rhs.size_ and rhs.data_[0 .. rhs.size_)
CopyAssignOp(d, s, rhs, f) ==
    LET n == rhs.size
    IN  IF n > Len(d)
        THEN \* Vector<T> tmp(rhs); Swap(tmp);
             IF Boom(f, TRUE) THEN Res(d, s, "realloc", "alloc", 0)
             ELSE LET c == UninitCopyN(rhs.data, 0, n, RawBlock(n), 0, Spend(f, TRUE))
                  IN  IF ~c.ok
                      THEN Abandoned([Res(d, s, "realloc", "construct", 0)
                                        EXCEPT !.made = c.made, !.killed = c.made], n)
                      ELSE Adopted([Res(SwapOp(Vec(d, s), Vec(c.dst, n)).a.data, n,
                                        "realloc", "none", c.fuse)
                                      EXCEPT !.made = c.made,
                                             !.oldKilled = Range(0, s)], d, n)
        ELSE IF s < n
        THEN LET c == UninitCopyN(rhs.data, s, n - s, d, s, f)
             IN  IF ~c.ok THEN Res(d, s, "reuse_more", "construct", 0)
                 ELSE IF BoomIn(c.fuse, s, TRUE)
                 THEN Res(StdCopy(rhs.data, s, c.dst, Done(c.fuse, s, TRUE)), s,
                          "reuse_more", "assign", 0)
                 ELSE Res(StdCopy(rhs.data, s, c.dst, s), n,
                          "reuse_more", "none", SpendN(c.fuse, s, TRUE))
        ELSE IF s > n
        THEN LET d1 == DestroyN(d, n, s - n)
             IN  IF BoomIn(f, n, TRUE)
                 THEN [Res(StdCopy(rhs.data, n, d1, Done(f, n, TRUE)), s,
                           "reuse_less", "assign", 0)
                         EXCEPT !.oldKilled = Range(n, s - n)]
                 ELSE [Res(StdCopy(rhs.data, n, d1, n), n,
                           "reuse_less", "none", SpendN(f, n, TRUE))
                         EXCEPT !.oldKilled = Range(n, s - n)]
        ELSE Res(d, n, "reuse_same", "none", f)

(* ------------------------------ the state ----------------------------- *)
\* the class invariant of Vector: [0, size) constructed, [size, capacity) raw
WellFormed ==
    /\ size <= Len(data)
    /\ \A i \in 1..Len(data) : (data[i] # Raw) <=> (i <= size)

\* a call is made only on a live process, on a container that satisfies
\* its class invariant (any use of a container that does not, its
\* destructor included, is undefined behaviour), and after the caller has
\* taken the result of the previous call
Usable == ~aborted /\ WellFormed /\ last.op = "none"

SrcSeqs == UNION {[1..n -> Vals] : n \in 0..MaxSrc}

\* right-hand sides: well-formed containers of capacity at most MaxSrc
SrcVecs ==
    {Vec(x[1] \o RawBlock(x[2] - Len(x[1])), Len(x[1])) :
        x \in {y \in SrcSeqs \X (0..MaxSrc) : y[2] >= Len(y[1])}}

\* right-hand sides of a copy, which reads only the live elements
SrcExact == {w \in SrcVecs : Len(w.data) = w.size}

Fuses == 0..MaxFuse

Note(op, r, pos, val, src, srcAfter, dst) ==
    [op |-> op, path |-> r.path, failed |-> r.failed, pos |-> pos, val |-> val,
     ret |-> r.ret, made |-> r.made, killed |-> r.killed, bad |-> r.bad,
     oldKilled |-> r.oldKilled, buf |-> r.buf, freed |-> r.freed,
     src |-> src, srcAfter |-> srcAfter, dst |-> dst, dstBefore |-> EmptyVec]

\* no call is in progress
Quiet == Note("none", Res(<<>>, 0, "none", "none", 0), 0, 0, EmptyVec, EmptyVec, EmptyVec)

Init ==
    /\ data = <<>>
    /\ size = 0
    /\ NothrowMove \in BOOLEAN
    /\ Copyable \in BOOLEAN
    /\ aborted = FALSE
    /\ hist = [pure |-> TRUE, calls |-> <<>>]
    /\ last = Quiet

\* the effect of a call with result r on the container
Apply(op, r, pos, val) ==
    /\ data' = r.data
    /\ size' = r.size
    /\ last' = Note(op, r, pos, val, EmptyVec, EmptyVec, EmptyVec)
    /\ UNCHANGED <<NothrowMove, Copyable>>

\* appends extend the history while every call so far was a successful append
Appended(r, v) ==
    hist' = IF hist.pure /\ r.failed = "none"
            THEN [pure |-> TRUE, calls |-> Append(hist.calls, v)]
            ELSE [pure |-> FALSE, calls |-> <<>>]

NotAppend == hist' = [pure |-> FALSE, calls |-> <<>>]

(* ------------------------------ actions ------------------------------- *)
Reserve ==
    /\ Usable
    /\ \E n \in 0..MaxCap, f \in Fuses :
          Apply("Reserve", ReserveOp(data, size, n, f), 0, n)
    /\ NotAppend
    /\ UNCHANGED aborted

Resize ==
    /\ Usable
    /\ \E n \in 0..MaxCap, f \in Fuses :
          Apply("Resize", ResizeOp(data, size, n, f), 0, n)
    /\ NotAppend
    /\ UNCHANGED aborted

\* PushBack(const T&) and PushBack(T&&)
PushBack ==
    /\ Usable
    /\ Len(data) > size \/ GrowCapBack(size) <= MaxCap
    /\ \E v \in Vals, kind \in {"copy", "move"}, f \in Fuses :
          /\ kind = "copy" => Copyable
          /\ LET r == EmplaceBackOp(data, size, v, NoRef, f, CtorThrows(kind))
             IN  Apply("PushBack", r, size, v) /\ Appended(r, v)
    /\ UNCHANGED aborted

EmplaceBack ==
    /\ Usable
    /\ Len(data) > size \/ GrowCapBack(size) <= MaxCap
    /\ \E v \in Vals, f \in Fuses :
          LET r == EmplaceBackOp(data, size, v, NoRef, f, CtorThrows("args"))
          IN  Apply("EmplaceBack", r, size, v) /\ Appended(r, v)
    /\ UNCHANGED aborted

\* calling PopBack on an empty container is excluded by its contract
PopBack ==
    /\ Usable
    /\ size > 0
    /\ Apply("PopBack", PopBackOp(data, size), 0, 0)
    /\ NotAppend
    /\ UNCHANGED aborted

\* destroying a slot that holds no object is undefined: the call may go on
\* as if nothing happened or the process may die
Undefined(r) == \E harm \in BOOLEAN : aborted' = (harm /\ r.bad # {})

\* Insert(pos, const T&) and Insert(pos, T&&)
Insert ==
    /\ Usable
    /\ Len(data) > size \/ GrowCapFilled(size) <= MaxCap
    /\ \E pos \in 0..size, v \in Vals, kind \in {"copy", "move"}, f \in Fuses :
          /\ kind = "copy" => Copyable
          /\ LET r == EmplaceOp(data, size, pos, v, NoRef, f, CtorThrows(kind))
             IN  Apply("Insert", r, pos, v) /\ Undefined(r)
    /\ NotAppend

\* Insert(pos, v[ref]): the const T& argument refers to an element of this
\* container
InsertRef ==
    /\ Usable
    /\ Copyable
    /\ Len(data) > size \/ GrowCapFilled(size) <= MaxCap
    /\ \E pos \in 0..size, ref \in 0..(size - 1), f \in Fuses :
          LET r == EmplaceOp(data, size, pos, data[ref + 1], ref, f, CtorThrows("copy"))
          IN  Apply("InsertRef", r, pos, data[ref + 1]) /\ Undefined(r)
    /\ NotAppend

\* PushBack(v[ref]): the const T& argument refers to an element of this
\* container
PushBackRef ==
    /\ Usable
    /\ Copyable
    /\ Len(data) > size \/ GrowCapBack(size) <= MaxCap
    /\ \E ref \in 0..(size - 1), f \in Fuses :
          LET r == EmplaceBackOp(data, size, data[ref + 1], ref, f, CtorThrows("copy"))
          IN  Apply("PushBackRef", r, size, data[ref + 1]) /\ Appended(r, data[ref + 1])
    /\ UNCHANGED aborted

Emplace ==
    /\ Usable
    /\ Len(data) > size \/ GrowCapFilled(size) <= MaxCap
    /\ \E pos \in 0..size, v \in Vals, f \in Fuses :
          LET r == EmplaceOp(data, size, pos, v, NoRef, f, CtorThrows("args"))
          IN  Apply("Emplace", r, pos, v) /\ Undefined(r)
    /\ NotAppend

Erase ==
    /\ Usable
    /\ \E pos \in 0..size, f \in Fuses :
          Apply("Erase", EraseOp(data, size, pos, f), pos, 0)
    /\ NotAppend
    /\ UNCHANGED aborted

\* operator=(const Vector&)
CopyAssign ==
    /\ Usable
    /\ Copyable
    /\ \E rhs \in SrcExact, f \in Fuses :
          LET r == CopyAssignOp(data, size, rhs, f)
          IN  /\ data' = r.data
              /\ size' = r.size
              /\ last' = Note("CopyAssign", r, 0, 0, rhs, rhs, Vec(r.data, r.size))
    /\ NotAppend
    /\ UNCHANGED <<NothrowMove, Copyable, aborted>>

\* operator=(Vector&&): this container is the destination
MoveAssign ==
    /\ Usable
    /\ \E rhs \in SrcVecs :
          LET w == SwapOp(Vec(data, size), rhs)
          IN  /\ data' = w.a.data
              /\ size' = w.a.size
              /\ last' = Note("MoveAssign",
                              [Res(w.a.data, w.a.size, "swap", "none", 0)
                                 EXCEPT !.buf = IF Len(rhs.data) = 0 THEN Null ELSE Foreign],
                              0, 0, rhs, w.b, w.a)
    /\ NotAppend
    /\ UNCHANGED <<NothrowMove, Copyable, aborted>>

\* Vector(Vector&&): this container is the source; the new container starts
\* as Vector() and swaps with it
MoveConstruct ==
    /\ Usable
    /\ LET w == SwapOp(EmptyVec, Vec(data, size))
       IN  /\ data' = w.b.data
           /\ size' = w.b.size
           /\ last' = Note("MoveConstruct", Res(w.b.data, w.b.size, "swap", "none", 0),
                           0, 0, Vec(data, size), w.b, w.a)
    /\ NotAppend
    /\ UNCHANGED <<NothrowMove, Copyable, aborted>>

\* Vector(const Vector&): this container is the source
CopyConstruct ==
    /\ Usable
    /\ Copyable
    /\ \E f \in Fuses :
          LET c == CopyConstructOp(data, size, f)
          IN  /\ data' = c.res.data
              /\ size' = c.res.size
              /\ last' = Note("CopyConstruct", c.res, 0, 0, Vec(data, size),
                              Vec(c.res.data, c.res.size), c.built)
    /\ NotAppend
    /\ UNCHANGED <<NothrowMove, Copyable, aborted>>

\* the blocks a RawMemory can own in a call: none, or one of 1 .. n slots
RawMems(b, n) == {EmptyRaw} \cup {RawMem(b, c) : c \in 1..n}

\* RawMemory(RawMemory&&) on a RawMemory of its own
RawMoveConstruct ==
    /\ Usable
    /\ \E src \in RawMems(Foreign, MaxSrc) :
          LET w == RawMoveConstructOp(src)
          IN  last' = [Quiet EXCEPT !.op = "RawMoveConstruct", !.src = src,
                                    !.srcAfter = w.b, !.dst = w.a,
                                    !.dstBefore = EmptyRaw]
    /\ UNCHANGED <<data, size, NothrowMove, Copyable, aborted, hist>>

\* RawMemory::operator=(RawMemory&&) between two RawMemory objects
RawMoveAssign ==
    /\ Usable
    /\ \E dst \in RawMems(Own, MaxCap), src \in RawMems(Foreign, MaxSrc) :
          LET w == RawMoveAssignOp(dst, src)
          IN  last' = [Quiet EXCEPT !.op = "RawMoveAssign", !.src = src,
                                    !.srcAfter = w.b, !.dst = w.a,
                                    !.dstBefore = dst]
    /\ UNCHANGED <<data, size, NothrowMove, Copyable, aborted, hist>>

\* the call returns (or its exception reaches the caller): the caller has
\* its result and the record of the call is dropped
Return ==
    /\ last.op # "none"
    /\ last' = Quiet
    /\ UNCHANGED <<data, size, NothrowMove, Copyable, aborted, hist>>

Next ==
    \/ Reserve
    \/ Resize
    \/ PushBack
    \/ EmplaceBack
    \/ PopBack
    \/ Insert
    \/ InsertRef
    \/ PushBackRef
    \/ Emplace
    \/ Erase
    \/ CopyAssign
    \/ MoveAssign
    \/ MoveConstruct
    \/ CopyConstruct
    \/ RawMoveConstruct
    \/ RawMoveAssign
    \/ Return

Spec == Init /\ [][Next]_vars

(* ====================================================================== *)
(*                              properties                                *)
(* ====================================================================== *)
Appends == {"PushBack", "EmplaceBack"}
Inserts == {"Insert", "Emplace"}

\* seq with x put in front of its element at offset k
InsertAt(seq, k, x) == SubSeq(seq, 1, k) \o <<x>> \o SubSeq(seq, k + 1, Len(seq))

\* seq without its element at offset k
RemoveAt(seq, k) == SubSeq(seq, 1, k) \o SubSeq(seq, k + 2, Len(seq))

\* C1: starting from an empty Vector, after any sequence of PushBack /
\* EmplaceBack calls that all succeed, Size() is the number of calls and the
\* element at index i is the i-th appended value.
C1_AppendsReadBack ==
    hist.pure => /\ size = Len(hist.calls)
                 /\ Elems(data, size) = hist.calls

\* three appends, the last of which reallocated from capacity 2 to 4
C1_Witness ==
    /\ hist.pure
    /\ Len(hist.calls) = 3
    /\ last.op \in Appends
    /\ last.path = "grow"
    /\ Len(data) = 4

\* C2 (as claimed): when Emplace / Insert on a full Vector fails in one of
\* its three steps, size, capacity and every element are as before the call.
C2_FullEmplaceStrong ==
    [][(/\ last'.op \in Inserts
        /\ last'.path = "full"
        /\ last'.failed \in {"prefix", "construct", "suffix"})
       => (data' = data /\ size' = size)]_vars

\* C3 (as claimed): when a step of Emplace / Insert on a full Vector fails,
\* the slots of the new block that are destroyed are exactly the slots that
\* were constructed in it, and none is destroyed while holding no object.
C3_ExactCleanup ==
    (/\ last.op \in Inserts
     /\ last.path = "full"
     /\ last.failed \in {"prefix", "construct", "suffix"})
    => (last.killed = last.made /\ last.bad = {})

\* C4 (as claimed): after dst = src completes, dst has the size and the
\* elements of src, whatever the relation between the two.
C4_CopyAssignEqual ==
    (last.op = "CopyAssign" /\ last.failed = "none")
    => /\ size = last.src.size
       /\ Elems(data, size) = Elems(last.src.data, last.src.size)

\* C5: if the construction of the new element fails on the growth path of
\* an append, size, capacity and elements are as before the call, and no
\* existing element had been relocated into the new block yet.
C5_AppendGrowthStrong ==
    [][(/\ last'.op \in Appends
        /\ last'.path = "grow"
        /\ last'.failed = "construct")
       => (data' = data /\ size' = size /\ last'.made = {})]_vars

\* a full container with two elements whose append failed in the constructor
C5_Witness ==
    /\ last.op \in Appends
    /\ last.path = "grow"
    /\ last.failed = "construct"
    /\ size = 2
    /\ Len(data) = 2

\* the source and the destination of a move, after it
SourceEmptied == last.srcAfter.size = 0 /\ Len(last.srcAfter.data) = 0
DestTookSource ==
    /\ last.dst.size = last.src.size
    /\ Elems(last.dst.data, last.dst.size) = Elems(last.src.data, last.src.size)

\* C6 (as claimed): a move construction or move assignment leaves the source
\* with Size() = 0 and Capacity() = 0 and the destination with the source's
\* prior elements and size.
C6_MoveEmptiesSource ==
    last.op \in {"MoveConstruct", "MoveAssign"}
    => (last.failed = "none" /\ SourceEmptied /\ DestTookSource)

\* C6 (amended): a move construction leaves the source with size 0 and
\* capacity 0; a move assignment leaves the source with the destination's
\* prior block and size; in both the destination holds the source's prior
\* elements, size and capacity, and the move does not fail.
C6_MoveExchanges ==
    [][(last'.op \in {"MoveConstruct", "MoveAssign"})
       => /\ last'.failed = "none"
          /\ last'.dst = last'.src
          /\ last'.op = "MoveConstruct" =>
                /\ last'.src = Vec(data, size)
                /\ last'.srcAfter = EmptyVec
                /\ Vec(data', size') = EmptyVec
          /\ last'.op = "MoveAssign" =>
                /\ last'.srcAfter = Vec(data, size)
                /\ Vec(data', size') = last'.src]_vars

\* a move assignment between two non-empty containers
C6_Witness ==
    /\ last.op = "MoveAssign"
    /\ last.src.size = 2
    /\ last.srcAfter.size = 3
    /\ size = 2

\* C7 (as claimed): after every call, returned or thrown, size <= capacity,
\* every slot of [0, size) holds an object and no slot of [size, capacity)
\* does.
C7_ClassInvariant ==
    /\ size <= Len(data)
    /\ \A i \in 1..Len(data) : i <= size => data[i] # Raw
    /\ \A i \in 1..Len(data) : i > size => data[i] = Raw

\* C8: a successful Emplace / Insert at offset k of x into [e0..e(n-1)]
\* gives [e0..e(k-1), x, ek..e(n-1)], size n+1, returns index k, and leaves
\* the capacity alone when there was spare capacity.
C8_EmplaceResult ==
    [][(last'.op \in Inserts /\ last'.failed = "none")
       => /\ size' = size + 1
          /\ Elems(data', size') = InsertAt(Elems(data, size), last'.pos, last'.val)
          /\ last'.ret = last'.pos
          /\ Len(data) > size => Len(data') = Len(data)]_vars

\* an insertion in the middle of three elements with spare capacity
C8_Witness ==
    /\ last.op \in Inserts
    /\ last.path = "spare"
    /\ last.failed = "none"
    /\ last.pos = 1
    /\ size = 4

\* C9: Erase(end) changes nothing and returns end; Erase at offset k of
\* [e0..e(n-1)] gives [e0..e(k-1), e(k+1)..e(n-1)], size n-1, the same
\* capacity, destroys the final slot only and returns index k.
C9_EraseResult ==
    [][(last'.op = "Erase" /\ last'.failed = "none")
       => IF last'.pos = size
          THEN /\ data' = data
               /\ size' = size
               /\ last'.ret = size
               /\ last'.oldKilled = {}
          ELSE /\ size' = size - 1
               /\ Elems(data', size') = RemoveAt(Elems(data, size), last'.pos)
               /\ Len(data') = Len(data)
               /\ last'.oldKilled = {size - 1}
               /\ last'.ret = last'.pos]_vars

\* the first of three elements was erased
C9_Witness ==
    /\ last.op = "Erase"
    /\ last.path = "shift"
    /\ last.failed = "none"
    /\ last.pos = 0
    /\ size = 2

\* C10: no Reserve, Resize, PushBack / EmplaceBack, PopBack, Emplace /
\* Insert, Erase or copy assignment decreases Capacity(); a Resize to a
\* smaller size, an Erase and a PopBack leave it unchanged.
C10_CapacityMonotone ==
    [][/\ (last'.op \in {"Reserve", "Resize", "PopBack", "Erase", "CopyAssign"}
                          \cup Appends \cup Inserts)
          => Len(data') >= Len(data)
       /\ (\/ last'.op \in {"PopBack", "Erase"}
           \/ last'.op = "Resize" /\ last'.val < size)
          => Len(data') = Len(data)]_vars

\* a Resize from a larger size down to one element
C10_Witness ==
    /\ last.op = "Resize"
    /\ last.path = "less"
    /\ size = 1
    /\ Len(data) >= 3

\* C11: Reserve(n) with n <= Capacity() changes nothing: size, capacity,
\* elements and buffer address are as before, no element is constructed or
\* destroyed, no block is allocated or released, and the call does not fail.
C11_ReserveNoop ==
    [][(last'.op = "Reserve" /\ last'.val <= Len(data))
       => /\ data' = data
          /\ size' = size
          /\ last'.buf = Held(data)
          /\ last'.made = {}
          /\ last'.killed = {}
          /\ last'.oldKilled = {}
          /\ last'.freed = <<>>
          /\ last'.failed = "none"]_vars

\* Reserve of exactly the capacity on a container with two elements
C11_Witness ==
    /\ last.op = "Reserve"
    /\ last.path = "noop"
    /\ last.val = Len(data)
    /\ size = 2
    /\ Len(data) > size

\* C12: an append or a positional insertion that finds size = capacity and
\* succeeds leaves Capacity() = 1 if the size was 0 and 2 * size otherwise.
C12_GrowthFactor ==
    [][(/\ last'.op \in Appends \cup Inserts
        /\ last'.failed = "none"
        /\ size = Len(data))
       => Len(data') = IF size = 0 THEN 1 ELSE 2 * size]_vars

\* a positional insertion into a full container of two elements
C12_Witness ==
    /\ last.op \in Inserts
    /\ last.path = "full"
    /\ last.failed = "none"
    /\ size = 3
    /\ Len(data) = 4

\* C13: a copy assignment with src.Size() <= dst.Capacity() that completes
\* keeps dst's capacity and block, releases nothing, destroys exactly the
\* trailing max(0, dst.Size() - src.Size()) elements of dst and leaves
\* dst.Size() = src.Size().
C13_CopyAssignReuse ==
    [][(/\ last'.op = "CopyAssign"
        /\ last'.failed = "none"
        /\ last'.src.size <= Len(data))
       => /\ Len(data') = Len(data)
          /\ last'.buf = Held(data)
          /\ last'.freed = <<>>
          /\ last'.oldKilled = Range(last'.src.size, size - last'.src.size)
          /\ \A i \in 1..Len(data') : i > last'.src.size => data'[i] = Raw
          /\ size' = last'.src.size]_vars

\* two elements assigned into a container of four elements and capacity four
C13_Witness ==
    /\ last.op = "CopyAssign"
    /\ last.path = "reuse_less"
    /\ last.failed = "none"
    /\ last.src.size = 2
    /\ size = 2
    /\ Len(data) = 4
    /\ last.oldKilled = {2, 3}

\* C14: when there is spare capacity and the construction of the new value
\* fails, an append and an Emplace / Insert leave size, capacity and every
\* slot of the block as they were.
C14_SpareCapacityStrong ==
    [][(/\ last'.op \in Appends \cup Inserts
        /\ Len(data) > size
        /\ last'.failed = "construct")
       => /\ data' = data
          /\ size' = size
          /\ last'.buf = Held(data)
          /\ last'.made = {}
          /\ last'.oldKilled = {}]_vars

\* an insertion in front of two elements whose new value failed to construct
C14_Witness ==
    /\ last.op \in Inserts
    /\ last.path = "spare"
    /\ last.failed = "construct"
    /\ last.pos = 0
    /\ size = 2

RawMoves == {"RawMoveConstruct", "RawMoveAssign"}

\* C15 (as claimed): a move construction or move assignment of a RawMemory
\* leaves the source with capacity 0 and a null buffer and the destination
\* with the source's prior buffer and capacity.
C15_RawMoveEmptiesSource ==
    last.op \in RawMoves => (last.srcAfter = EmptyRaw /\ last.dst = last.src)

\* C15 (amended): a move construction of a RawMemory leaves the source with
\* capacity 0 and a null buffer; a move assignment leaves the source with the
\* destination's prior buffer and capacity; in both the destination ends
\* with the source's prior buffer and capacity.
C15_RawMoveExchanges ==
    /\ last.op \in RawMoves => last.dst = last.src
    /\ last.op = "RawMoveConstruct" => last.srcAfter = EmptyRaw
    /\ last.op = "RawMoveAssign" => last.srcAfter = last.dstBefore

\* a move assignment between two RawMemory objects that both own a block
C15_Witness ==
    /\ last.op = "RawMoveAssign"
    /\ last.dstBefore = RawMem(Own, 3)
    /\ last.src = RawMem(Foreign, 1)
    /\ last.srcAfter.buffer = Own

\* C16: a copy-constructed Vector has the size and the elements of the
\* source and a capacity equal to the source's size; the source is unchanged.
C16_CopyConstruct ==
    [][(last'.op = "CopyConstruct" /\ last'.failed = "none")
       => /\ last'.dst.size = size
          /\ Elems(last'.dst.data, last'.dst.size) = Elems(data, size)
          /\ Len(last'.dst.data) = size
          /\ data' = data
          /\ size' = size]_vars

\* a copy of a container with two elements and capacity four
C16_Witness ==
    /\ last.op = "CopyConstruct"
    /\ last.failed = "none"
    /\ size = 2
    /\ Len(data) = 4
    /\ Len(last.dst.data) = 2

\* C17: when copying the existing elements into the new block fails during
\* Reserve or during the growth path of an append, the container keeps its
\* block, size and elements, every element constructed in the new block
\* (the appended one included) is destroyed exactly once, and the new block
\* is released.
C17_RelocationFailureCleanup ==
    [][(/\ last'.op \in {"Reserve"} \cup Appends
        /\ ~UseMove
        /\ last'.path = "grow"
        /\ last'.failed = "relocate")
       => /\ data' = data
          /\ size' = size
          /\ last'.buf = Held(data)
          /\ last'.killed = last'.made
          /\ last'.bad = {}
          /\ last'.freed = <<Fresh>>]_vars

\* C18: a successful Reserve(n) with n above the capacity makes the capacity
\* n, keeps the size and the elements in order, destroys each of the size
\* elements of the old block once and releases the old block once.
C18_ReserveGrows ==
    [][(/\ last'.op = "Reserve"
        /\ last'.val > Len(data)
        /\ last'.failed = "none")
       => /\ Len(data') = last'.val
          /\ size' = size
          /\ Elems(data', size') = Elems(data, size)
          /\ last'.oldKilled = Range(0, size)
          /\ last'.buf = Fresh
          /\ last'.freed = Deallocate(Held(data))]_vars

\* a Reserve that moved two elements out of a block of two into one of four
C18_Witness ==
    /\ last.op = "Reserve"
    /\ last.failed = "none"
    /\ UseMove
    /\ last.val = 4
    /\ last.oldKilled = {0, 1}
    /\ last.freed = <<Own>>
    /\ size = 2

\* C19: Resize(m) on a container of size n keeps the first min(n, m)
\* elements; for m > n slots [n, m) hold value-initialised elements and the
\* capacity is at least m; for m < n exactly the elements [m, n) are
\* destroyed; for m = n nothing changes; the size is m afterwards, and it is
\* still n when the call fails.
C19_Resize ==
    [][last'.op = "Resize"
       => LET m == last'.val
              n == size
          IN  /\ last'.failed # "none" => size' = n
              /\ last'.failed = "none"
                 => /\ size' = m
                    /\ m > n => /\ Elems(data', n) = Elems(data, n)
                                /\ \A i \in (n + 1)..m : data'[i] = Default
                                /\ Len(data') >= m
                    /\ m < n => /\ Elems(data', m) = Elems(data, m)
                                /\ last'.oldKilled = Range(m, n - m)
                                /\ \A i \in (m + 1)..n : data'[i] = Raw
                                /\ Len(data') = Len(data)
                    /\ m = n => /\ data' = data
                                /\ last'.oldKilled = {}]_vars

\* a Resize from one element to three that had to take a larger block
C19_Witness ==
    /\ last.op = "Resize"
    /\ last.path = "more"
    /\ last.failed = "none"
    /\ last.buf = Fresh
    /\ size = 3
    /\ data[1] = 2
    /\ data[2] = Default
    /\ data[3] = Default

Aliased == {"InsertRef", "PushBackRef"}

\* C20: when the value passed to Insert or PushBack refers to an element of
\* the same container, the inserted element equals the value that element
\* had before the call.
C20_AliasedArgument ==
    [][(last'.op \in Aliased /\ last'.failed = "none")
       => data'[last'.pos + 1] = last'.val]_vars

====
